---------------------------- MODULE Spec2Model ----------------------------
(***************************************************************************)
(* The Worker resource API of express-famedevres (index.js) over the       *)
(* Worker collection declared in models/Worker.js.                         *)
(*                                                                         *)
(* A JSON value is written as its JSON text: the number 100 is "100", the  *)
(* string "150" is "'150'".  A document or a request body is a record that *)
(* holds exactly the fields that are present.  An ObjectId is a positive   *)
(* integer; BadOid stands for a string that is no ObjectId.                *)
(***************************************************************************)
EXTENDS Integers, Sequences, FiniteSets, TLC

\* ObjectIds the process generates in one run, and the longest POST /workers array.
MaxOid == 2
MaxBatch == 2

BadOid == 0

Undefined == "undefined"
Null == "null"
CastError == "CastError"

VARIABLES
    docs,           \* the Worker collection, in insertion order
    nextOid,        \* the next ObjectId the driver generates
    omitUndefined,  \* whether this mongoose strips undefined keys of an update
    req,            \* the last request: the id of its path, the field sets of its body
    res,            \* the response to it
    deleted,        \* history (SpecHistory): keys DELETE /worker/:id answered 200 for
    wiped           \* history: DELETE /workers answered 200 and no POST since

vars == <<docs, nextOid, omitUndefined, req, res, deleted, wiped>>

--------------------------------------------------------------------------
\* models/Worker.js: the schema.

NumberPaths == {"id", "RMPaid"}
StringPaths == {"name", "phoneNumber", "status", "passportNumber"}
DatePaths == {"permitVisaExpiry"}
SchemaPaths == NumberPaths \cup StringPaths \cup DatePaths
UniquePaths == {"id"}

CastNumber(v) ==
    CASE v \in {"100", "150", "7"} -> v
      [] v = "'150'" -> "150"
      [] OTHER -> CastError

CastString(v) ==
    CASE v \in {"100", "150", "7"} -> "'" \o v \o "'"
      [] OTHER -> v

CastDate(v) ==
    CASE v = "'2025-01-01'" -> "'2025-01-01T00:00:00.000Z'"
      [] v = "100" -> "'1970-01-01T00:00:00.100Z'"
      [] v \in {"150", "'150'"} -> "'1970-01-01T00:00:00.150Z'"
      [] v = "7" -> "'1970-01-01T00:00:00.007Z'"
      [] OTHER -> CastError

CastPath(p, v) ==
    IF p \in NumberPaths THEN CastNumber(v)
    ELSE IF p \in DatePaths THEN CastDate(v)
    ELSE CastString(v)

CastObjectId(v) == IF v = BadOid THEN CastError ELSE "ok"

--------------------------------------------------------------------------
\* Documents.

Present(o, p) == p \in DOMAIN o /\ o[p] # Undefined

\* Whether mongoose's casting of the field set o leaves a validation error.
Invalid(o) ==
    \/ \E p \in DOMAIN o \cap SchemaPaths : Present(o, p) /\ CastPath(p, o[p]) = CastError
    \/ "_id" \in DOMAIN o /\ CastObjectId(o["_id"]) = CastError

\* new Worker(o): strict mode drops the paths the schema does not declare, each
\* value is cast to its path's type, and the _id is o's own when it carries one
\* and a fresh ObjectId otherwise.
NewWorker(o, oid) ==
    LET kept == {p \in DOMAIN o \cap SchemaPaths :
                    Present(o, p) /\ CastPath(p, o[p]) # CastError}
    IN  [p \in kept \cup {"_id", "__v"} |->
            IF p = "_id" THEN (IF "_id" \in DOMAIN o THEN o["_id"] ELSE oid)
            ELSE IF p = "__v" THEN "0"
            ELSE CastPath(p, o[p])]

Keys(ds) == {ds[i]["_id"] : i \in DOMAIN ds}

\* The key a unique index files a document under: a missing field is indexed as null.
IndexKey(d, p) == IF p \in DOMAIN d THEN d[p] ELSE Null

\* Whether inserting d next to the documents ds violates a unique index
\* (the _id index, or the index of a path declared unique).
DuplicateKey(ds, d) ==
    \E i \in DOMAIN ds :
        \/ ds[i]["_id"] = d["_id"]
        \/ \E p \in UniquePaths : IndexKey(ds[i], p) = IndexKey(d, p)

Position(ds, id) == CHOOSE i \in DOMAIN ds : ds[i]["_id"] = id

Remove(ds, i) == [j \in 1..(Len(ds) - 1) |-> IF j < i THEN ds[j] ELSE ds[j + 1]]

--------------------------------------------------------------------------
\* Store calls.  Each yields [ok, docs, out, err]: whether the promise resolves,
\* the collection afterwards, the documents it resolves with, the error name.

Resolved(ds, out) == [ok |-> TRUE, docs |-> ds, out |-> out, err |-> ""]
Rejected(ds, err) == [ok |-> FALSE, docs |-> ds, out |-> <<>>, err |-> err]

\* Worker.find()
Find(ds, up) ==
    IF ~up THEN Rejected(ds, "MongoNetworkError") ELSE Resolved(ds, ds)

\* Worker.findById(id)
FindById(ds, id, up) ==
    IF CastObjectId(id) = CastError THEN Rejected(ds, CastError)
    ELSE IF ~up THEN Rejected(ds, "MongoNetworkError")
    ELSE IF id \in Keys(ds) THEN Resolved(ds, <<ds[Position(ds, id)]>>)
    ELSE Resolved(ds, <<>>)

\* worker.save() of a new document
Save(ds, o, d, up) ==
    IF Invalid(o) THEN Rejected(ds, "ValidationError")
    ELSE IF ~up THEN Rejected(ds, "MongoNetworkError")
    ELSE IF DuplicateKey(ds, d) THEN Rejected(ds, "E11000")
    ELSE Resolved(Append(ds, d), <<d>>)

\* insertMany with { ordered: false }: the documents that pass validation are
\* inserted, and the error of the others is reported afterwards.
RECURSIVE InsertValid(_, _, _)
InsertValid(ds, os, new) ==
    IF new = <<>> THEN ds
    ELSE IF Invalid(Head(os)) \/ DuplicateKey(ds, Head(new))
        THEN InsertValid(ds, Tail(os), Tail(new))
    ELSE InsertValid(Append(ds, Head(new)), Tail(os), Tail(new))

InsertManyUnordered(ds, os, new, up) ==
    IF ~up THEN Rejected(ds, "MongoNetworkError")
    ELSE IF \E i \in DOMAIN os : Invalid(os[i])
        THEN Rejected(InsertValid(ds, os, new), "ValidationError")
    ELSE IF InsertValid(ds, os, new) = ds \o new THEN Resolved(ds \o new, new)
    ELSE Rejected(InsertValid(ds, os, new), "E11000")

\* The ordered insert of MongoDB: documents go in one by one, and the first one
\* that violates a unique index stops the insert, those before it staying in.
RECURSIVE InsertOrdered(_, _)
InsertOrdered(ds, new) ==
    IF new = <<>> THEN Resolved(ds, <<>>)
    ELSE IF DuplicateKey(ds, Head(new)) THEN Rejected(ds, "E11000")
    ELSE InsertOrdered(Append(ds, Head(new)), Tail(new))

\* Worker.insertMany(workers): every document is validated before anything is
\* sent to MongoDB.
InsertMany(ds, os, new, up) ==
    IF \E i \in DOMAIN os : Invalid(os[i]) THEN Rejected(ds, "ValidationError")
    ELSE IF ~up THEN Rejected(ds, "MongoNetworkError")
    ELSE LET r == InsertOrdered(ds, new)
         IN  IF r.ok THEN Resolved(r.docs, new) ELSE r

\* The $set mongoose makes of an update object: paths outside the schema are
\* dropped, values are cast, and an undefined value is dropped or becomes null.
CastUpdate(u, omit) ==
    LET kept == {p \in DOMAIN u \cap (SchemaPaths \cup {"_id"}) :
                    p = "_id" \/ u[p] # Undefined \/ ~omit}
    IN  [p \in kept |->
            IF p = "_id" THEN u[p]
            ELSE IF u[p] = Undefined THEN Null
            ELSE CastPath(p, u[p])]

Merge(d, set) ==
    [p \in DOMAIN d \cup DOMAIN set |-> IF p \in DOMAIN set THEN set[p] ELSE d[p]]

\* findByIdAndUpdate(id, u, { new: true, upsert: true }): an id that matches no
\* document inserts one.
FindByIdAndUpsert(ds, id, u, omit, up) ==
    IF CastObjectId(id) = CastError \/ Invalid(u) THEN Rejected(ds, CastError)
    ELSE IF ~up THEN Rejected(ds, "MongoNetworkError")
    ELSE LET set == CastUpdate(u, omit)
             hit == id \in Keys(ds)
             old == IF hit THEN ds[Position(ds, id)] ELSE [_id |-> id, __v |-> "0"]
             d == Merge(old, [p \in DOMAIN set \ {"_id"} |-> set[p]])
         IN  IF hit THEN Resolved([ds EXCEPT ![Position(ds, id)] = d], <<d>>)
             ELSE Resolved(Append(ds, d), <<d>>)

\* Worker.findByIdAndUpdate(id, u, { new: true })
FindByIdAndUpdate(ds, id, u, omit, up) ==
    IF CastObjectId(id) = CastError \/ Invalid(u) THEN Rejected(ds, CastError)
    ELSE IF ~up THEN Rejected(ds, "MongoNetworkError")
    ELSE IF id \notin Keys(ds) THEN Resolved(ds, <<>>)
    ELSE LET i == Position(ds, id)
             set == CastUpdate(u, omit)
             d == Merge(ds[i], set)
             others == Remove(ds, i)
         IN  IF "_id" \in DOMAIN set /\ set["_id"] # id
                 THEN Rejected(ds, "ImmutableField")
             ELSE IF \E j \in DOMAIN others : \E p \in UniquePaths \cap DOMAIN set :
                         IndexKey(others[j], p) = IndexKey(d, p)
                 THEN Rejected(ds, "E11000")
             ELSE Resolved([ds EXCEPT ![i] = d], <<d>>)

\* findOneAndDelete() without the filter: the first document goes, whatever its key.
FindAnyAndDelete(ds, id, up) ==
    IF CastObjectId(id) = CastError THEN Rejected(ds, CastError)
    ELSE IF ~up THEN Rejected(ds, "MongoNetworkError")
    ELSE IF ds = <<>> THEN Resolved(ds, <<>>)
    ELSE Resolved(Tail(ds), <<Head(ds)>>)

\* Worker.findByIdAndDelete(id)
FindByIdAndDelete(ds, id, up) ==
    IF CastObjectId(id) = CastError THEN Rejected(ds, CastError)
    ELSE IF ~up THEN Rejected(ds, "MongoNetworkError")
    ELSE IF id \notin Keys(ds) THEN Resolved(ds, <<>>)
    ELSE LET i == Position(ds, id) IN Resolved(Remove(ds, i), <<ds[i]>>)

\* Worker.deleteOne(): only the first document goes.
DeleteOne(ds, up) ==
    IF ~up THEN Rejected(ds, "MongoNetworkError")
    ELSE IF ds = <<>> THEN Resolved(ds, <<>>)
    ELSE Resolved(Tail(ds), <<>>)

\* Worker.deleteMany()
DeleteMany(ds, up) ==
    IF ~up THEN Rejected(ds, "MongoNetworkError") ELSE Resolved(<<>>, <<>>)

--------------------------------------------------------------------------
\* Requests.

\* Field sets a client sends: the spec's example with a date, a lone RMPaid, an
\* RMPaid the schema cannot cast, a date it cannot cast, the schema's own id
\* path, a body without RMPaid that names a path the schema does not declare, and
\* an empty object.
Ana == [name |-> "'Ana'", RMPaid |-> "100", permitVisaExpiry |-> "'2025-01-01'"]
Paid == [RMPaid |-> "150"]
BadPaid == [RMPaid |-> "'abc'"]
BadDate == [name |-> "'Ana'", permitVisaExpiry |-> "'not-a-date'"]
Seven == [id |-> "7"]
Site == [name |-> "'Bo'", siteProject |-> "'X'"]
Empty == [p \in {} |-> ""]

CreateBodies == {Ana, BadDate}
BatchBodies == {Ana, BadDate, Seven}
UpdateBodies == {Paid, BadPaid, Seven}
PaidBodies == {Ana, Paid, BadPaid, Site}

\* A field set that carries an _id as well: a key some response has shown, or
\* a string that is no ObjectId.
WithId(b, k) == [p \in DOMAIN b \cup {"_id"} |-> IF p = "_id" THEN k ELSE b[p]]
KnownOids == BadOid..(nextOid - 1)

\* The ids a path can name: a string that is no ObjectId, the keys of the stored
\* documents, the keys DELETE /worker/:id has removed, and an ObjectId no document
\* ever had.
PathIds == {BadOid, nextOid} \cup Keys(docs) \cup deleted

Batches == UNION {[1..n -> BatchBodies] : n \in 0..MaxBatch}

--------------------------------------------------------------------------
\* Responses.  status NoResponse: the handler never answered.  message is the
\* body's message, error the name of the error the handler's call raised, and
\* caught whether the handler itself dealt with it.

NoResponse == 0

Answer(op, status, kind, body, message, error) ==
    [op |-> op, status |-> status, kind |-> kind, body |-> body,
     message |-> message, error |-> error, caught |-> TRUE]

\* An await outside any try: the rejection leaves the handler.  Express 4 then
\* sends nothing (and a Node that ends the process on an unhandled rejection
\* is started again over the same collection); Express 5 hands the error to its
\* default handler, which answers 500.
Escapes(op, error) ==
    {[op |-> op, status |-> st, kind |-> "none", body |-> <<>>,
      message |-> "", error |-> error, caught |-> FALSE] :
        st \in {NoResponse, 500}}

\* res.json(worker) of a document or of null
Json(op, out) ==
    Answer(op, 200, IF out = <<>> THEN "null" ELSE "doc", out, "", "")

\* A request: the id its path names (BadOid when it names none) and the field
\* sets of its JSON body (none, one, or the elements of an array).
Request(id, body) == [id |-> id, body |-> body]

Init ==
    /\ docs = <<>>
    /\ req = Request(BadOid, <<>>)
    /\ nextOid = 1
    /\ omitUndefined \in BOOLEAN
    /\ res = Answer("", NoResponse, "none", <<>>, "", "")
    /\ deleted = {}
    /\ wiped = FALSE

\* app.get("/workers")
GetWorkers(up) ==
    LET r == Find(docs, up) IN
    /\ req' = Request(BadOid, <<>>)
    /\ IF r.ok THEN res' = Answer("GET /workers", 200, "list", r.out, "", "")
       ELSE res' \in Escapes("GET /workers", r.err)
    /\ UNCHANGED <<docs, nextOid, omitUndefined, deleted, wiped>>

\* app.get("/worker/:id")
GetWorker(id, up) ==
    LET r == FindById(docs, id, up) IN
    /\ req' = Request(id, <<>>)
    /\ IF r.ok THEN res' = Json("GET /worker/:id", r.out)
       ELSE res' \in Escapes("GET /worker/:id", r.err)
    /\ UNCHANGED <<docs, nextOid, omitUndefined, deleted, wiped>>

\* The whole body as the update object, as PUT /worker/:id passes it.
WholeBody(body) == body

\* const { RMPaid } = req.body; the update object is { RMPaid }
RMPaidOf(body) ==
    [RMPaid |-> IF "RMPaid" \in DOMAIN body THEN body["RMPaid"] ELSE Undefined]

\* app.put("/worker/:id/updateRMPaid")
UpdateRMPaid(id, body, up) ==
    LET r == FindByIdAndUpdate(docs, id, RMPaidOf(body), omitUndefined, up) IN
    /\ req' = Request(id, <<body>>)
    /\ docs' = r.docs
    /\ IF r.ok THEN res' = Json("PUT /worker/:id/updateRMPaid", r.out)
       ELSE res' \in Escapes("PUT /worker/:id/updateRMPaid", r.err)
    /\ UNCHANGED <<nextOid, omitUndefined, deleted, wiped>>

\* app.put("/worker/:id")
UpdateWorker(id, body, up) ==
    LET r == FindByIdAndUpdate(docs, id, body, omitUndefined, up) IN
    /\ req' = Request(id, <<body>>)
    /\ docs' = r.docs
    /\ IF r.ok THEN res' = Json("PUT /worker/:id", r.out)
       ELSE res' \in Escapes("PUT /worker/:id", r.err)
    /\ UNCHANGED <<nextOid, omitUndefined, deleted, wiped>>

\* The six fields POST /worker copies out of the body.
CreateFields ==
    {"name", "phoneNumber", "status", "passportNumber", "permitVisaExpiry", "RMPaid"}
Picked(body) == [p \in DOMAIN body \cap CreateFields |-> body[p]]

\* app.post("/worker")
PostWorker(body, up) ==
    LET o == Picked(body)
        r == Save(docs, o, NewWorker(o, nextOid), up) IN
    /\ nextOid <= MaxOid
    /\ req' = Request(BadOid, <<body>>)
    /\ nextOid' = nextOid + 1
    /\ docs' = r.docs
    /\ res' = IF r.ok THEN Answer("POST /worker", 201, "doc", r.out, "", "")
              ELSE Answer("POST /worker", 400, "message", <<>>, r.err, r.err)
    /\ wiped' = FALSE
    /\ UNCHANGED <<omitUndefined, deleted>>

\* req.body.map((worker) => new Worker(worker)): the elements that carry no
\* _id take the next ObjectIds in order.
RECURSIVE NewWorkers(_, _)
NewWorkers(os, oid) ==
    IF os = <<>> THEN <<>>
    ELSE <<NewWorker(Head(os), oid)>> \o
         NewWorkers(Tail(os), IF "_id" \in DOMAIN Head(os) THEN oid ELSE oid + 1)

Generated(os) == Cardinality({i \in DOMAIN os : "_id" \notin DOMAIN os[i]})

\* app.post("/workers") with a JSON array
PostWorkers(body, up) ==
    LET r == InsertMany(docs, body, NewWorkers(body, nextOid), up) IN
    /\ nextOid + Generated(body) <= MaxOid + 1
    /\ req' = Request(BadOid, body)
    /\ nextOid' = nextOid + Generated(body)
    /\ docs' = r.docs
    /\ res' = IF r.ok THEN Answer("POST /workers", 201, "list", r.out, "", "")
              ELSE Answer("POST /workers", 400, "message", <<>>, r.err, r.err)
    /\ wiped' = FALSE
    /\ UNCHANGED <<omitUndefined, deleted>>

\* app.post("/workers") with a JSON object: req.body.map is not a function, and
\* the TypeError leaves the handler before any store call.
PostWorkersNoArray ==
    /\ req' = Request(BadOid, <<>>)
    /\ res' \in Escapes("POST /workers", "TypeError")
    /\ wiped' = FALSE
    /\ UNCHANGED <<docs, nextOid, omitUndefined, deleted>>

\* app.delete("/worker/:id")
DeleteWorker(id, up) ==
    LET r == FindByIdAndDelete(docs, id, up) IN
    /\ req' = Request(id, <<>>)
    /\ docs' = r.docs
    /\ res' = IF ~r.ok
                  THEN Answer("DELETE /worker/:id", 400, "message", <<>>, r.err, r.err)
              ELSE IF r.out = <<>>
                  THEN Answer("DELETE /worker/:id", 404, "message", <<>>,
                              "Worker not found", "")
              ELSE Answer("DELETE /worker/:id", 200, "doc", r.out, "", "")
    /\ UNCHANGED <<nextOid, omitUndefined, wiped>>

\* app.delete("/workers")
DeleteWorkers(up) ==
    LET r == DeleteMany(docs, up) IN
    /\ req' = Request(BadOid, <<>>)
    /\ docs' = r.docs
    /\ IF r.ok THEN res' = Answer("DELETE /workers", 200, "message", <<>>,
                                  "All workers deleted", "")
       ELSE res' \in Escapes("DELETE /workers", r.err)
    /\ wiped' = (r.ok \/ wiped)
    /\ UNCHANGED <<nextOid, omitUndefined, deleted>>

\* The requests that are not DELETE /worker/:id.  A request whose store call
\* finds the connection down ends the same way whatever it names, so one
\* request of each kind stands for them.
Others ==
    \/ \E up \in BOOLEAN : GetWorkers(up)
    \/ \E id \in PathIds : GetWorker(id, TRUE)
    \/ GetWorker(nextOid, FALSE)
    \/ \E id \in PathIds, body \in PaidBodies : UpdateRMPaid(id, body, TRUE)
    \/ UpdateRMPaid(nextOid, Paid, FALSE)
    \/ \E id \in PathIds, body \in UpdateBodies : UpdateWorker(id, body, TRUE)
    \/ \E id \in PathIds, k \in Keys(docs) \cup {BadOid} :
          UpdateWorker(id, WithId(Empty, k), TRUE)
    \/ UpdateWorker(nextOid, Paid, FALSE)
    \/ \E body \in CreateBodies, up \in BOOLEAN : PostWorker(body, up)
    \/ \E body \in Batches : PostWorkers(body, TRUE)
    \/ \E k \in KnownOids : PostWorkers(<<WithId(Ana, k)>>, TRUE)
    \/ PostWorkers(<<Ana>>, FALSE)
    \/ PostWorkersNoArray
    \/ \E up \in BOOLEAN : DeleteWorkers(up)

\* The API; the history of deletions is not kept.
Next ==
    \/ Others
    \/ \E id \in PathIds : DeleteWorker(id, TRUE) /\ UNCHANGED deleted
    \/ DeleteWorker(nextOid, FALSE) /\ UNCHANGED deleted

Spec == Init /\ [][Next]_vars

\* The API with the history of deletions: deleted gathers every key for which
\* DELETE /worker/:id answered 200.
NextHistory ==
    \/ Others
    \/ \E id \in PathIds :
          /\ DeleteWorker(id, TRUE)
          /\ deleted' = IF res'.status = 200 THEN deleted \cup {id} ELSE deleted
    \/ DeleteWorker(nextOid, FALSE) /\ UNCHANGED deleted

SpecHistory == Init /\ [][NextHistory]_vars

--------------------------------------------------------------------------
\* Properties.

Posts == {"POST /worker", "POST /workers"}
Puts == {"PUT /worker/:id", "PUT /worker/:id/updateRMPaid"}
Deletes == {"DELETE /worker/:id", "DELETE /workers"}
ErrorStatus == 400..599

\* The documents of ds other than the one with key id, in order.
Without(ds, id) ==
    LET keep(d) == d["_id"] # id IN SelectSeq(ds, keep)

\* Whether d and e agree on every field but p.
SameBut(d, e, p) ==
    /\ DOMAIN d \ {p} = DOMAIN e \ {p}
    /\ \A f \in DOMAIN d \ {p} : d[f] = e[f]

\* C1: whenever a handler's store call fails, the handler itself catches the
\* failure and the request is answered with an HTTP error status.
C1_StoreFailuresCaught ==
    res.error \notin {"", "TypeError"} => res.caught /\ res.status \in ErrorStatus

\* C2: a GET /worker/:id whose key matches no document is answered 404, never
\* with a success status and a null body.
C2_GetUnknownIs404 ==
    res.op = "GET /worker/:id" /\ res.error = "" /\ req.id \notin Keys(docs)
        => res.status = 404 /\ res.kind # "null"

\* C3: a key for which DELETE /worker/:id answered 200 is in the collection
\* never again, so no later GET returns or lists a document with that key.
C3_DeletedStaysDeleted ==
    /\ Keys(docs) \cap deleted = {}
    /\ res.op \in {"GET /worker/:id", "GET /workers"} => Keys(res.body) \cap deleted = {}

\* C4: DELETE /worker/:id has exactly three outcomes.  A key that matches a
\* document: 200 with the document as it was, and the collection without exactly
\* that document.  A key that matches none: 404 "Worker not found", collection
\* unchanged.  A store call that fails: 400, collection unchanged.
C4_DeleteOutcomes ==
    [][res'.op = "DELETE /worker/:id" =>
          IF res'.error # ""
              THEN res'.status = 400 /\ docs' = docs
          ELSE IF req'.id \in Keys(docs)
              THEN /\ res'.status = 200
                   /\ res'.body = <<docs[Position(docs, req'.id)]>>
                   /\ docs' = Without(docs, req'.id)
                   /\ Len(docs') = Len(docs) - 1
          ELSE /\ res'.status = 404
               /\ res'.message = "Worker not found"
               /\ docs' = docs]_vars

C4_Witness ==
    /\ res.op = "DELETE /worker/:id"
    /\ res.status = 200
    /\ res.body[1]["_id"] = req.id
    /\ docs # <<>>

\* C5: PUT /worker/:id/updateRMPaid on an existing document changes nothing but
\* that document's RMPaid, whatever the body, and the same request applied again
\* changes nothing more and resolves with the same document.
C5_RMPaidOnly ==
    [][res'.op = "PUT /worker/:id/updateRMPaid" /\ req'.id \in Keys(docs) =>
          LET i == Position(docs, req'.id)
              again == FindByIdAndUpdate(docs', req'.id, RMPaidOf(req'.body[1]),
                                         omitUndefined,
                                         res'.error # "MongoNetworkError")
          IN  /\ Len(docs') = Len(docs)
              /\ \A j \in DOMAIN docs : j # i => docs'[j] = docs[j]
              /\ SameBut(docs'[i], docs[i], "RMPaid")
              /\ again.docs = docs'
              /\ again.out = res'.body]_vars

C5_Witness ==
    /\ res.op = "PUT /worker/:id/updateRMPaid"
    /\ "name" \in DOMAIN req.body[1]
    /\ res.status = 200
    /\ res.kind = "doc"
    /\ "name" \in DOMAIN res.body[1]
    /\ res.body[1]["RMPaid"] = "150"
    /\ Len(docs) = 2

\* C6: POST /workers with N field sets that each pass validation answers 201
\* with N documents in input order, their keys distinct and new, and the
\* collection grows by exactly those documents.
C6_BatchCreatesAll ==
    [][/\ res'.op = "POST /workers"
       /\ res'.error \notin {"TypeError", "MongoNetworkError"}
       /\ \A i \in DOMAIN req'.body : ~Invalid(req'.body[i])
       => /\ res'.status = 201
          /\ Len(res'.body) = Len(req'.body)
          /\ Cardinality(Keys(res'.body)) = Len(req'.body)
          /\ Keys(res'.body) \cap Keys(docs) = {}
          /\ docs' = docs \o res'.body]_vars

\* C7: POST /workers with a batch of which an element fails validation answers
\* 400 and leaves the collection as it was.
C7_InvalidBatchInsertsNothing ==
    [][/\ res'.op = "POST /workers"
       /\ \E i \in DOMAIN req'.body : Invalid(req'.body[i])
       => res'.status = 400 /\ docs' = docs]_vars

C7_Witness ==
    /\ res.op = "POST /workers"
    /\ res.status = 400
    /\ Len(req.body) = 2
    /\ ~Invalid(req.body[1])
    /\ Invalid(req.body[2])
    /\ docs = <<>>

\* C8: every document a POST returns with 201 has a well-formed key and is in
\* the collection from then on until a DELETE removes it, and a POST that
\* answers 400 has persisted nothing.
C8_CreatedPersistsFailedDoesNot ==
    [][/\ res'.op \in Posts /\ res'.status = 201 =>
              \A i \in DOMAIN res'.body :
                  /\ res'.body[i]["_id"] # BadOid
                  /\ \E j \in DOMAIN docs' : docs'[j] = res'.body[i]
       /\ res'.op \notin Deletes => Keys(docs) \subseteq Keys(docs')
       /\ res'.op \in Posts /\ res'.status = 400 => docs' = docs]_vars

\* C9: once DELETE /workers has answered 200, and until the next POST, the
\* collection is empty and GET /workers lists nothing; DELETE /workers whose
\* store call succeeds answers 200 "All workers deleted" whatever the
\* collection held, also nothing.
C9_DeleteAllEmpties ==
    [][/\ wiped' => docs' = <<>>
       /\ wiped' /\ res'.op = "GET /workers" /\ res'.caught
              => res'.status = 200 /\ res'.body = <<>>
       /\ res'.op = "DELETE /workers" /\ DeleteWorkers(TRUE)
              => /\ res'.status = 200
                 /\ res'.message = "All workers deleted"
                 /\ wiped']_vars

C9_Witness ==
    /\ wiped
    /\ res.op = "GET /workers"
    /\ res.status = 200
    /\ nextOid > 1

\* C10: the keys of the stored documents are pairwise distinct, and neither PUT
\* adds a document, removes one or changes a document's key: after a PUT the
\* collection holds the same keys at the same places, also when the body
\* carries an _id, and a PUT that resolves null changes nothing.
C10_KeysDistinctAndFixed ==
    [][/\ Cardinality(Keys(docs')) = Len(docs')
       /\ res'.op \in Puts =>
              /\ Len(docs') = Len(docs)
              /\ \A i \in DOMAIN docs : docs'[i]["_id"] = docs[i]["_id"]
              /\ res'.kind = "null" => docs' = docs
       /\ res'.op \notin Posts \cup Deletes => Keys(docs') = Keys(docs)]_vars

C10_Witness ==
    /\ res.op = "PUT /worker/:id"
    /\ "_id" \in DOMAIN req.body[1]
    /\ req.body[1]["_id"] # req.id
    /\ res.error = "ImmutableField"
    /\ Len(docs) = 2

==========================================================================
